---- MODULE Spec2Model ----
(***************************************************************************)
(* discord.ext.voice_record as a state machine: the UserFilter recording   *)
(* session (filter.py) and its DecodeManager worker (opus.py).             *)
(*                                                                         *)
(* The code is asyncio code: coroutines of one event loop interleave only  *)
(* at their suspension points.  UserFilter methods contain none while the  *)
(* decode queue is empty, so each call is one atomic step, except          *)
(* UserFilter.start, which awaits DecodeManager.start: that coroutine IS   *)
(* the worker loop, so the start call stays in flight for as long as the   *)
(* loop runs.  The loop has two program points, the while test             *)
(* (opus.py:593) and the pop (opus.py:595), and no await between them      *)
(* while the queue is empty: as long as it runs, the event loop runs       *)
(* nothing else (EventLoopFree).  DecodeManager.stop is a public coroutine *)
(* method; it is called by UserFilter.stop and may be called by any other  *)
(* holder of the manager, from another thread, which the action            *)
(* DecodeManagerStop models.                                               *)
(*                                                                         *)
(* Spec and FairSpec are the session and its worker.  The packet path is   *)
(* checked in three further specifications over the same state: SyncSpec   *)
(* is receive_decoded_packet with the SPEAKING messages of the gateway,    *)
(* HoldSpec adds the session to it, RecvSpec is the session with the       *)
(* receive loop (_receive_packet) and a populated decode queue.  Nothing   *)
(* in the package appends to decode_queue or calls _receive_packet or      *)
(* receive_decoded_packet on a live frame, so these are entered as calls   *)
(* from outside, the way a host program would make them.                   *)
(***************************************************************************)
EXTENDS Integers, Sequences, FiniteSets, Bags, TLC

\* ---------------------------------------------------------------- bounds
MaxUser == 2
MaxFilterLen == 3
MaxManagers == 2
MaxBacklog == 1
MaxSsrc == 2
MaxSlot == 3
MaxQueue == 2
MaxDecoders == 2
MaxPayload == 26
MaxTail == 9

\* the samples of one frame (filter.py:301), the length of one packed
\* sample (filter.py:305) and OpusStruct.CHANNELS (opus.py:368)
FrameSamples == 960
SampleBytes == 2
CHANNELS == 2

Users == 1..MaxUser
Ssrcs == 1..MaxSsrc
\* RTP timestamps of frames, one frame apart
Timestamps == {FrameSamples * k : k \in 1..MaxSlot}

\* ------------------------------------------------------------- variables
VARIABLES
    recoding,          \* UserFilter._recoding
    paused,            \* UserFilter._paused
    filtered_user,     \* UserFilter.filtered_user, a list of user ids
    decoder,           \* UserFilter._decoder: 0 is None, else index in managers
    managers,          \* every DecodeManager object constructed so far
    user_audio_data,   \* UserFilter._user_audio_data: user id -> buffer
    secret_key,        \* Xsalsa20Decrypt.secret_key: "unset" or "set"
    socket,            \* datagrams buffered in voice_client.socket, unread
    user_audio_timestamp, \* UserFilter._user_audio_timestamp: ssrc -> timestamp
    ssrc_map,          \* DiscordVoiceWebSocket.ssrc_map: ssrc -> user, speaking
    in_flight,         \* the receive_decoded_packet call suspended in its wait
    receive_loop,      \* where the _receive_packet coroutine stands
    last               \* the last step taken and what its caller observed

vars == <<recoding, paused, filtered_user, decoder, managers,
          user_audio_data, secret_key, socket, user_audio_timestamp,
          ssrc_map, in_flight, receive_loop, last>>

\* the state of the aggregation side and of the receive loop
aggregator == <<user_audio_data, user_audio_timestamp, ssrc_map, in_flight,
                receive_loop>>

\* ------------------------------------------------------ helper operators
\* a remove that drops every occurrence of x
ListRemoveAll(s, x) == SelectSeq(s, LAMBDA y : y # x)

\* list.remove(x): drops the first occurrence of x (x is known to occur)
RECURSIVE ListRemove(_, _)
ListRemove(s, x) ==
    IF s = <<>> THEN <<>>
    ELSE IF Head(s) = x THEN Tail(s)
    ELSE <<Head(s)>> \o ListRemove(Tail(s), x)

Elems(s) == {s[i] : i \in DOMAIN s}

\* the filter list as a multiset of ids
AsBag(s) == [u \in Elems(s) |-> Cardinality({i \in DOMAIN s : s[i] = u})]

\* DecodeManager.__init__: _decoder maps an ssrc to its Decoder object, which
\* is named by its number among the Decoder objects the manager has made
NewManager == [decode_queue |-> <<>>, decoders |-> <<>>, made |-> 0,
               end_thread |-> FALSE, loop |-> "test"]

\* the ssrcs that manager o holds a decoder handle for
manager_decoders(o) == DOMAIN o.decoders

\* _get_decoder that makes a new Decoder on every call
GetDecoderAlways(o, s) ==
    [o EXCEPT !.decoders = [x \in DOMAIN o.decoders \cup {s} |->
                               IF x = s THEN o.made + 1 ELSE o.decoders[x]],
              !.made = @ + 1]

\* DecodeManager._get_decoder(ssrc) on manager o: the manager after the
\* call; the handle returned is its decoders[s].  A Decoder object is truthy
\* (the class defines neither __bool__ nor __len__), so a stored handle is
\* kept.
GetDecoder(o, s) ==
    IF s \in DOMAIN o.decoders
    THEN o
    ELSE [o EXCEPT !.decoders = [x \in DOMAIN o.decoders \cup {s} |->
                                    IF x = s THEN o.made + 1 ELSE o.decoders[x]],
                   !.made = @ + 1]

\* no receive_decoded_packet call is suspended
NoCall == [ssrc |-> 0]

\* neither the worker loop of a manager nor the receive loop, which has no
\* suspension point either (select blocks, filter.py:273-275), occupies the
\* event loop
EventLoopFree ==
    /\ \A m \in DOMAIN managers : managers[m].loop \notin {"test", "pop"}
    /\ receive_loop # "running"

\* UserFilter.status
status ==
    IF recoding THEN "recording"
    ELSE IF paused THEN "paused"
    ELSE "stopped"

\* the flags and the membership as they are before a step
Snapshot == [recoding |-> recoding, paused |-> paused,
             filtered_user |-> filtered_user]

\* a toggle_pause or add_user call that completed without raising, as the
\* next step remembers it
Completed(l) ==
    IF l.exc = "none" /\ l.op \in {"toggle_pause", "add_user"}
    THEN <<l.op, l.arg>>
    ELSE <<"other", 0>>

\* the record of a step: the operation, its argument, what it raised to its
\* caller ("none": it returned, "pending": it is suspended), the state it
\* started from
Observe(op, arg, exc) ==
    [op |-> op, arg |-> arg, exc |-> exc, pre |-> Snapshot,
     prev |-> Completed(last)]

\* ------------------------------------------------------------------ Init
\* UserFilter.__init__ with filtered_user=None
Init ==
    /\ recoding = FALSE
    /\ paused = FALSE
    /\ filtered_user = <<>>
    /\ decoder = 0
    /\ managers = <<>>
    /\ user_audio_data = <<>>
    /\ secret_key = "unset"
    /\ socket = 0
    /\ user_audio_timestamp = <<>>
    /\ ssrc_map = <<>>
    /\ in_flight = NoCall
    /\ receive_loop = "idle"
    /\ last = [op |-> "init", arg |-> 0, exc |-> "none",
               pre |-> [recoding |-> FALSE, paused |-> FALSE,
                        filtered_user |-> <<>>],
               prev |-> <<"other", 0>>]

\* --------------------------------------------------------------- actions
\* toggle_pause without its NotRecording guard
toggle_pause_unguarded ==
    /\ EventLoopFree
    /\ paused' = ~paused
    /\ last' = Observe("toggle_pause", 0, IF recoding THEN "none" ELSE "NotRecording")
    /\ UNCHANGED <<recoding, filtered_user, decoder, managers,
                   aggregator, secret_key, socket>>

\* toggle_pause that sets the pause flag instead of flipping it
toggle_pause_sets ==
    /\ EventLoopFree
    /\ IF ~recoding
       THEN /\ last' = Observe("toggle_pause", 0, "NotRecording")
            /\ UNCHANGED paused
       ELSE /\ paused' = TRUE
            /\ last' = Observe("toggle_pause", 0, "none")
    /\ UNCHANGED <<recoding, filtered_user, decoder, managers,
                   aggregator, secret_key, socket>>

\* UserFilter.toggle_pause
toggle_pause ==
    /\ EventLoopFree
    /\ IF ~recoding
       THEN /\ last' = Observe("toggle_pause", 0, "NotRecording")
            /\ UNCHANGED paused
       ELSE /\ paused' = ~paused
            /\ last' = Observe("toggle_pause", 0, "none")
    /\ UNCHANGED <<recoding, filtered_user, decoder, managers,
                   aggregator, secret_key, socket>>

\* add_user that raises AlreadyRecording only after it has appended
add_user_late_guard(u) ==
    /\ EventLoopFree
    /\ Len(filtered_user) < MaxFilterLen
    /\ filtered_user' = Append(filtered_user, u)
    /\ last' = Observe("add_user", u, IF recoding THEN "AlreadyRecording" ELSE "none")
    /\ UNCHANGED <<recoding, paused, decoder, managers, aggregator,
                   secret_key, socket>>

\* UserFilter.add_user
add_user(u) ==
    /\ EventLoopFree
    /\ IF recoding
       THEN /\ last' = Observe("add_user", u, "AlreadyRecording")
            /\ UNCHANGED filtered_user
       ELSE /\ Len(filtered_user) < MaxFilterLen
            /\ filtered_user' = Append(filtered_user, u)
            /\ last' = Observe("add_user", u, "none")
    /\ UNCHANGED <<recoding, paused, decoder, managers, aggregator,
                   secret_key, socket>>

\* UserFilter.remove_user
remove_user(u) ==
    /\ EventLoopFree
    /\ IF recoding
       THEN /\ last' = Observe("remove_user", u, "AlreadyRecording")
            /\ UNCHANGED filtered_user
       ELSE IF u \notin Elems(filtered_user)
       THEN /\ last' = Observe("remove_user", u, "ValueError")
            /\ UNCHANGED filtered_user
       ELSE /\ filtered_user' = ListRemove(filtered_user, u)
            /\ last' = Observe("remove_user", u, "none")
    /\ UNCHANGED <<recoding, paused, decoder, managers, aggregator,
                   secret_key, socket>>

\* UserFilter.start up to the point where it awaits the worker loop:
\* _empty_socket reads the socket until select reports nothing ready, then
\* a new DecodeManager replaces _decoder and its start() is entered.
start ==
    /\ EventLoopFree
    /\ IF recoding
       THEN /\ last' = Observe("start", 0, "AlreadyRecording")
            /\ UNCHANGED <<decoder, managers, socket>>
       ELSE /\ Len(managers) < MaxManagers
            /\ socket' = 0
            /\ managers' = Append(managers, NewManager)
            /\ decoder' = Len(managers) + 1
            /\ last' = Observe("start", 0, "pending")
    /\ UNCHANGED <<recoding, paused, filtered_user, aggregator,
                   secret_key>>

\* the network delivers a datagram to the voice socket
SocketArrive ==
    /\ socket < MaxBacklog
    /\ socket' = socket + 1
    /\ last' = Observe("socket_arrive", 0, "none")
    /\ UNCHANGED <<recoding, paused, filtered_user, decoder, managers,
                   aggregator, secret_key>>

\* DecodeManager.start, the while test of the worker loop.  When the loop
\* ends, DecodeManager.start returns into UserFilter.start, which sets
\* _recoding (and _sink) and returns to its caller.
WorkerTest(m) ==
    /\ managers[m].loop = "test"
    /\ IF managers[m].end_thread
       THEN /\ managers' = [managers EXCEPT ![m].loop = "exited"]
            /\ recoding' = TRUE
            /\ last' = Observe("start_return", m, "none")
       ELSE /\ managers' = [managers EXCEPT ![m].loop = "pop"]
            /\ recoding' = recoding
            /\ last' = Observe("worker_test", m, "none")
    /\ UNCHANGED <<paused, filtered_user, decoder, aggregator,
                   secret_key, socket>>

\* DecodeManager.start, the body of the worker loop.  An empty queue raises
\* IndexError, which is caught, and the loop continues at once (no await).
\* A queued FilteredDataPack has a bound method as decrypted_data: it is
\* not None, _get_decoder creates the handle, and Decoder.decode takes
\* len() of the method, a TypeError that no handler of the loop catches.
WorkerPop(m) ==
    /\ managers[m].loop = "pop"
    /\ IF managers[m].decode_queue = <<>>
       THEN /\ managers' = [managers EXCEPT ![m].loop = "test"]
            /\ last' = Observe("worker_pop", m, "IndexError caught")
       ELSE /\ managers' = [managers EXCEPT
                   ![m] = [GetDecoder(@, Head(@.decode_queue).ssrc) EXCEPT
                              !.decode_queue = Tail(@),
                              !.loop = "raised"]]
            /\ last' = Observe("start_return", m, "TypeError")
    /\ UNCHANGED <<recoding, paused, filtered_user, decoder, aggregator,
                   secret_key, socket>>

\* DecodeManager.stop on manager m: one pass of its drain loop when the
\* queue holds something (sleep, then clear the handles), else the set of
\* the stop event.
ManagerStop(m) ==
    IF managers[m].decode_queue # <<>>
    THEN [managers EXCEPT ![m].decoders = <<>>]
    ELSE [managers EXCEPT ![m].end_thread = TRUE]

\* DecodeManager.stop called by a holder of the manager other than
\* UserFilter.stop
DecodeManagerStop(m) ==
    /\ managers' = ManagerStop(m)
    /\ last' = Observe("manager_stop", m, "none")
    /\ UNCHANGED <<recoding, paused, filtered_user, decoder, aggregator,
                   secret_key, socket>>

\* stop that forgets to clear the pause flag
stop_keeps_pause ==
    /\ EventLoopFree
    /\ IF ~recoding
       THEN /\ last' = Observe("stop", 0, "NotRecording")
            /\ UNCHANGED <<recoding, managers>>
       ELSE /\ managers' = ManagerStop(decoder)
            /\ recoding' = FALSE
            /\ last' = Observe("stop", 0, "NameError")
    /\ UNCHANGED <<paused, filtered_user, decoder, aggregator,
                   secret_key, socket>>

\* UserFilter.stop.  RecordFileTree is imported under TYPE_CHECKING only
\* (filter.py:46-47), so the return statement raises NameError when it looks
\* the name up, after both flags were cleared.
stop ==
    /\ EventLoopFree
    /\ IF ~recoding
       THEN /\ last' = Observe("stop", 0, "NotRecording")
            /\ UNCHANGED <<recoding, paused, managers>>
       ELSE IF managers[decoder].decode_queue # <<>>
       THEN /\ managers' = ManagerStop(decoder)
            /\ last' = Observe("stop", 0, "pending")
            /\ UNCHANGED <<recoding, paused>>
       ELSE /\ managers' = ManagerStop(decoder)
            /\ recoding' = FALSE
            /\ paused' = FALSE
            /\ last' = Observe("stop", 0, "NameError")
    /\ UNCHANGED <<filtered_user, decoder, aggregator, secret_key,
                   socket>>

\* the packets the transport can hand over: an RTCP packet (second byte in
\* 200..204), an audio packet that fails authentication, and authenticated
\* audio packets whose plaintext is the silence marker or an opus frame
Packets ==
    {[kind |-> "rtcp", auth |-> FALSE, plain |-> "none"],
     [kind |-> "audio", auth |-> FALSE, plain |-> "none"],
     [kind |-> "audio", auth |-> TRUE, plain |-> "silence"],
     [kind |-> "audio", auth |-> TRUE, plain |-> "opus"]}

\* FilteredDataPack.decrypted_data: Xsalsa20Decrypt reads self.secret_key,
\* which the class only annotates; SecretBox.decrypt raises CryptoError
\* when the payload does not authenticate.
decrypted_data(p) ==
    IF secret_key = "unset" THEN [exc |-> "AttributeError", plain |-> "none"]
    ELSE IF ~p.auth THEN [exc |-> "CryptoError", plain |-> "none"]
    ELSE [exc |-> "none", plain |-> p.plain]

\* unpack_audio_packet that decrypts while the session is paused
UnpackOutcomeNoPause(p) ==
    IF p.kind = "rtcp" THEN "none"
    ELSE decrypted_data(p).exc

\* unpack_audio_packet that decrypts RTCP packets too
UnpackOutcomeNoRtcp(p) ==
    IF paused THEN "none"
    ELSE decrypted_data(p).exc

\* what UserFilter.unpack_audio_packet raises for packet p
UnpackOutcome(p) ==
    IF p.kind = "rtcp" THEN "none"
    ELSE IF paused THEN "none"
    ELSE decrypted_data(p).exc

\* UserFilter.unpack_audio_packet: both branches after the decryption
\* return; nothing is appended to decode_queue.
unpack_audio_packet(p) ==
    /\ EventLoopFree
    /\ last' = Observe("unpack_audio_packet", p, UnpackOutcome(p))
    /\ UNCHANGED <<recoding, paused, filtered_user, decoder, managers,
                   aggregator, secret_key, socket>>

\* the host assigns the negotiated key to Xsalsa20Decrypt.secret_key
LoadSecretKey ==
    /\ EventLoopFree
    /\ secret_key = "unset"
    /\ secret_key' = "set"
    /\ last' = Observe("load_secret_key", 0, "none")
    /\ UNCHANGED <<recoding, paused, filtered_user, decoder, managers,
                   aggregator, socket>>

\* ------------------------------------------------------- nonce schemes
\* nacl.secret.SecretBox.NONCE_SIZE, the width of the RTP header, and the
\* width of the nonce counter that the lite mode appends to the payload
NonceSize == 24
HeaderSize == 12
LiteSize == 4

Modes == {"xsalsa20_poly1305", "xsalsa20_poly1305_suffix",
          "xsalsa20_poly1305_lite"}

\* byte strings as sequences of 0..255: the string of n bytes that starts
\* after byte a and counts up
ByteSeeds == {0, 255}
CountingBytes(n, a) == [i \in 1..n |-> (a + i) % 256]

\* FilteredDataPack.header is always HeaderSize bytes when a decrypt method
\* is reached (struct.unpack_from in __init__ raises before on less);
\* FilteredDataPack.data is whatever follows the header
Headers == {CountingBytes(HeaderSize, a) : a \in {100, 200}}
Payloads == {CountingBytes(n, a) : n \in 0..MaxPayload, a \in ByteSeeds}

\* bytearray(n)
ZeroBytes(n) == [i \in 1..n |-> 0]

\* b[:k] = v on a bytearray: the first k bytes are replaced by v, whatever
\* the length of v
SliceAssign(b, k, v) ==
    v \o SubSeq(b, (IF k < Len(b) THEN k ELSE Len(b)) + 1, Len(b))

\* d[-n:] and d[:-n] of Python, for n > 0
SliceLast(d, n) == SubSeq(d, (IF Len(d) > n THEN Len(d) - n ELSE 0) + 1, Len(d))
SliceButLast(d, n) == SubSeq(d, 1, IF Len(d) > n THEN Len(d) - n ELSE 0)

\* the nonce and the ciphertext that the method of the mode hands to
\* SecretBox.decrypt
Handed(mode, header, data) ==
    IF mode = "xsalsa20_poly1305"
    THEN [nonce |-> SliceAssign(ZeroBytes(NonceSize), HeaderSize, header),
          ciphertext |-> data]
    ELSE IF mode = "xsalsa20_poly1305_suffix"
    THEN [nonce |-> SliceLast(data, NonceSize),
          ciphertext |-> SliceButLast(data, NonceSize)]
    ELSE [nonce |-> SliceAssign(ZeroBytes(NonceSize), LiteSize,
                                SliceLast(data, LiteSize)),
          ciphertext |-> SliceButLast(data, LiteSize)]

\* the marker of an RTP header extension (0xBE 0xDE), the width of the
\* marker with the length field, and the unit the length field counts in
ExtensionMarker == <<190, 222>>
ExtHeaderSize == 4
ExtWordSize == 4

\* Xsalsa20Decrypt.strip_header_ext: data[0] and data[1] raise IndexError
\* on a string that ends before them (the second is read only when the
\* first is 0xBE); struct.unpack_from(">HH") reads the length big-endian
\* from bytes 2..3; data[offset:] is empty when offset passes the end
strip_header_ext(data) ==
    IF Len(data) = 0 THEN [exc |-> "IndexError", data |-> <<>>]
    ELSE IF data[1] # ExtensionMarker[1] THEN [exc |-> "none", data |-> data]
    ELSE IF Len(data) = 1 THEN [exc |-> "IndexError", data |-> <<>>]
    ELSE IF data[2] = ExtensionMarker[2] /\ Len(data) > ExtHeaderSize
    THEN LET length == data[3] * 256 + data[4]
             offset == ExtHeaderSize + length * ExtWordSize
         IN [exc |-> "none", data |-> SubSeq(data, offset + 1, Len(data))]
    ELSE [exc |-> "none", data |-> data]

\* what SecretBox.decrypt makes of a ciphertext that does not authenticate
NotAuthentic == <<-1>>

\* the plaintexts SecretBox.decrypt returns: with and without the marker,
\* with the marker cut short, with lengths of 0, 1, 2 and 256 words, each
\* followed by up to MaxTail bytes
ExtPrefixes ==
    {<<>>, <<7>>, <<190>>, <<190, 0, 0, 1>>, <<222, 190, 0, 1>>,
     <<190, 222>>, <<190, 222, 0>>, <<190, 222, 0, 0>>, <<190, 222, 0, 1>>,
     <<190, 222, 0, 2>>, <<190, 222, 1, 0>>}
Plaintexts == {p \o CountingBytes(n, 0) : p \in ExtPrefixes, n \in 0..MaxTail}

\* FilteredDataPack.decrypted_data(mode) on a packet of the given header and
\* payload, plain being what SecretBox.decrypt makes of the ciphertext under
\* the key: SecretBox(bytes(self.secret_key)) raises AttributeError before
\* anything is derived while no key is assigned; SecretBox.decrypt rejects
\* a nonce that is not NonceSize bytes with ValueError and a ciphertext
\* that does not authenticate with CryptoError; its plaintext goes through
\* strip_header_ext
xsalsa20_decrypt(mode, header, data, plain) ==
    /\ EventLoopFree
    /\ IF secret_key = "unset"
       THEN last' = Observe("decrypt",
                            [mode |-> mode, header |-> header, data |-> data,
                             handed |-> FALSE, nonce |-> <<>>,
                             ciphertext |-> <<>>, plain |-> NotAuthentic,
                             result |-> <<>>], "AttributeError")
       ELSE LET ok == /\ Len(Handed(mode, header, data).nonce) = NonceSize
                      /\ plain # NotAuthentic
            IN last' = Observe("decrypt",
                            [mode |-> mode, header |-> header, data |-> data,
                             handed |-> TRUE,
                             nonce |-> Handed(mode, header, data).nonce,
                             ciphertext |-> Handed(mode, header, data).ciphertext,
                             plain |-> IF ok THEN plain ELSE NotAuthentic,
                             result |-> IF ok THEN strip_header_ext(plain).data
                                        ELSE <<>>],
                            IF Len(Handed(mode, header, data).nonce) # NonceSize
                            THEN "ValueError"
                            ELSE IF plain = NotAuthentic THEN "CryptoError"
                            ELSE strip_header_ext(plain).exc)
    /\ UNCHANGED <<recoding, paused, filtered_user, decoder, managers,
                   aggregator, secret_key, socket>>

\* ---------------------------------------------------- aggregation side
\* the frames handed to receive_decoded_packet: a FilteredDataPack with the
\* ssrc and the timestamp of its RTP header and an opus payload, which
\* authenticated when the decrypt step took it in
Frames ==
    {[kind |-> "audio", ssrc |-> s, timestamp |-> t, auth |-> TRUE,
      plain |-> "opus"] : s \in Ssrcs, t \in Timestamps}

\* frames whose opus payload the codec rejects
CorruptFrames ==
    {[kind |-> "audio", ssrc |-> s, timestamp |-> t, auth |-> TRUE,
      plain |-> "corrupt"] : s \in Ssrcs, t \in Timestamps}

\* len(b * n) for a bytes object of length len: a count below one gives the
\* empty bytes object
BytesRepeatUnclamped(len, n) == len * n

BytesRepeat(len, n) == IF n > 0 THEN len * n ELSE 0

\* the local silence of receive_decoded_packet (filter.py:293-302)
silence(f) ==
    IF f.ssrc \notin DOMAIN user_audio_timestamp THEN 0
    ELSE f.timestamp - user_audio_timestamp[f.ssrc] - FrameSamples

\* the local decoded_data of receive_decoded_packet (filter.py:305-309): the
\* number of zero bytes in front and the payload, named by its frame
decoded_data(f) ==
    [zeros |-> BytesRepeat(BytesRepeat(SampleBytes, silence(f)), CHANNELS),
     payload |-> <<f.ssrc, f.timestamp>>]

\* io.BytesIO() and its write at the current position, in chunks
NewBytesIO == [content |-> <<>>, pos |-> 0]

BytesIOWrite(b, chunk) ==
    [content |-> SubSeq(b.content, 1, b.pos) \o <<chunk>>
                   \o SubSeq(b.content, b.pos + 2, Len(b.content)),
     pos |-> b.pos + 1]

\* a delivery that writes into the user's buffer at its position
DeliverInPlace(s, chunk) ==
    LET user == ssrc_map[s].user_id
    IN [u \in DOMAIN user_audio_data \cup {user} |->
           IF u = user
           THEN BytesIOWrite(IF user \in DOMAIN user_audio_data
                             THEN user_audio_data[user] ELSE NewBytesIO, chunk)
           ELSE user_audio_data[u]]

\* filter.py:312-327 for a frame of a resolved ssrc: a fresh buffer is
\* stored and written only when the user has none; otherwise the fresh
\* buffer is dropped with nothing written anywhere
Deliver(s, chunk) ==
    LET user == ssrc_map[s].user_id
    IN IF user \notin DOMAIN user_audio_data
       THEN [u \in DOMAIN user_audio_data \cup {user} |->
                IF u = user THEN BytesIOWrite(NewBytesIO, chunk)
                ELSE user_audio_data[u]]
       ELSE user_audio_data

\* UserFilter.receive_decoded_packet up to its first suspension: the
\* timestamp is recorded before the payload is decrypted again, so a
\* failing decryption leaves it recorded.  Calls are made one after another,
\* as the worker loop makes them (opus.py:610).
receive_decoded_packet(f) ==
    /\ EventLoopFree
    /\ in_flight = NoCall
    /\ user_audio_timestamp' =
          [s \in DOMAIN user_audio_timestamp \cup {f.ssrc} |->
              IF s = f.ssrc THEN f.timestamp ELSE user_audio_timestamp[s]]
    /\ IF decrypted_data(f).exc # "none"
       THEN /\ last' = Observe("receive_decoded_packet",
                               [frame |-> f, decoded |-> NoCall],
                               decrypted_data(f).exc)
            /\ UNCHANGED <<user_audio_data, in_flight>>
       ELSE IF f.ssrc \notin DOMAIN ssrc_map
       THEN /\ in_flight' = [ssrc |-> f.ssrc, frame |-> f,
                             decoded |-> decoded_data(f)]
            /\ last' = Observe("receive_decoded_packet",
                               [frame |-> f, decoded |-> decoded_data(f)],
                               "pending")
            /\ UNCHANGED user_audio_data
       ELSE /\ user_audio_data' = Deliver(f.ssrc, decoded_data(f))
            /\ last' = Observe("receive_decoded_packet",
                               [frame |-> f, decoded |-> decoded_data(f)],
                               "none")
            /\ UNCHANGED in_flight
    /\ UNCHANGED <<recoding, paused, filtered_user, decoder, managers,
                   secret_key, socket, ssrc_map, receive_loop>>

\* the suspended receive_decoded_packet call wakes from its sleep
\* (filter.py:310-311): it sleeps again while the ssrc is unknown, else it
\* runs to its end
ReceiveWake ==
    /\ EventLoopFree
    /\ in_flight # NoCall
    /\ IF in_flight.ssrc \notin DOMAIN ssrc_map
       THEN /\ last' = Observe("receive_wake",
                               [frame |-> in_flight.frame,
                                decoded |-> in_flight.decoded], "pending")
            /\ UNCHANGED <<user_audio_data, in_flight>>
       ELSE /\ user_audio_data' = Deliver(in_flight.ssrc, in_flight.decoded)
            /\ in_flight' = NoCall
            /\ last' = Observe("receive_wake",
                               [frame |-> in_flight.frame,
                                decoded |-> in_flight.decoded], "none")
    /\ UNCHANGED <<recoding, paused, filtered_user, decoder, managers,
                   secret_key, socket, user_audio_timestamp, ssrc_map,
                   receive_loop>>

\* the user an ssrc belongs to: the voice server gives every ssrc to one
\* user, and a user can hold a second ssrc (after a reconnect)
Owner(s) == (s + 1) \div 2

\* int(data["user_id"]): the user id comes as a string of decimal digits,
\* here the sequence of its digits
RECURSIVE ParseInt(_)
ParseInt(digits) ==
    IF digits = <<>> THEN 0
    ELSE 10 * ParseInt(SubSeq(digits, 1, Len(digits) - 1)) + digits[Len(digits)]

\* the user ids a message can carry, the first also with a leading zero
UserIdStrings == {<<u>> : u \in Users} \cup {<<0, 1>>}

\* the values of data["speaking"]: not speaking, microphone
SpeakingFlags == {0, 1}

\* a SPEAKING branch that stores the message's entry whether or not the
\* ssrc is known
SPEAKING_rebinds(s, u, flag) ==
    /\ EventLoopFree
    /\ ssrc_map' =
          [x \in DOMAIN ssrc_map \cup {s} |->
              IF x = s THEN [user_id |-> ParseInt(u), speaking |-> flag]
              ELSE ssrc_map[x]]
    /\ last' = Observe("SPEAKING",
                       [ssrc |-> s, user_id |-> u, speaking |-> flag], "none")
    /\ UNCHANGED <<recoding, paused, filtered_user, decoder, managers,
                   user_audio_data, secret_key, socket, user_audio_timestamp,
                   in_flight, receive_loop>>

\* DiscordVoiceWebSocket.received_message for a SPEAKING message: a known
\* ssrc has only its speaking field updated, an unknown one gets an entry
SPEAKING(s, u, flag) ==
    /\ EventLoopFree
    /\ ssrc_map' =
          IF s \in DOMAIN ssrc_map
          THEN [ssrc_map EXCEPT ![s].speaking = flag]
          ELSE [x \in DOMAIN ssrc_map \cup {s} |->
                   IF x = s THEN [user_id |-> ParseInt(u), speaking |-> flag]
                   ELSE ssrc_map[x]]
    /\ last' = Observe("SPEAKING",
                       [ssrc |-> s, user_id |-> u, speaking |-> flag], "none")
    /\ UNCHANGED <<recoding, paused, filtered_user, decoder, managers,
                   user_audio_data, secret_key, socket, user_audio_timestamp,
                   in_flight, receive_loop>>

\* the messages of the voice gateway that are not SPEAKING
OtherOps == {"READY", "HEARTBEAT_ACK", "RESUMED", "SESSION_DESCRIPTION",
             "HELLO"}

\* DiscordVoiceWebSocket.received_message for a message of another op:
\* none of its branches reads or writes ssrc_map
received_message(op) ==
    /\ EventLoopFree
    /\ last' = Observe("received_message", op, "none")
    /\ UNCHANGED <<recoding, paused, filtered_user, decoder, managers,
                   aggregator, secret_key, socket>>


\* ------------------------------------------------------- receive loop
\* UserFilter._receive_packet is called: the timestamps are cleared and the
\* loop is entered if a session is active
receive_packet ==
    /\ EventLoopFree
    /\ receive_loop = "idle"
    /\ user_audio_timestamp' = <<>>
    /\ IF recoding
       THEN /\ receive_loop' = "running"
            /\ last' = Observe("receive_packet", 0, "pending")
       ELSE /\ receive_loop' = "idle"
            /\ last' = Observe("receive_packet", 0, "none")
    /\ UNCHANGED <<recoding, paused, filtered_user, decoder, managers,
                   user_audio_data, secret_key, socket, ssrc_map, in_flight>>

\* every buffer after bytes_file.seek(0)
SeekAll(d) == [u \in DOMAIN d |-> [d[u] EXCEPT !.pos = 0]]

\* one turn of the loop of _receive_packet in which recv returns: the loop
\* ends when _recoding is cleared, turns again at once when select reports
\* nothing, and else hands the datagram to unpack_audio_packet, whose
\* exceptions no handler of the loop catches, and rewinds every buffer
ReceiveTurn ==
    /\ receive_loop = "running"
    /\ IF ~recoding
       THEN /\ receive_loop' = "idle"
            /\ last' = Observe("receive_return", 0, "none")
            /\ UNCHANGED <<socket, user_audio_data>>
       ELSE IF socket = 0
       THEN /\ last' = Observe("receive_idle", 0, "pending")
            /\ UNCHANGED <<socket, user_audio_data, receive_loop>>
       ELSE \E p \in Packets :
            /\ socket' = socket - 1
            /\ IF UnpackOutcome(p) # "none"
               THEN /\ receive_loop' = "idle"
                    /\ last' = Observe("receive_data", p, UnpackOutcome(p))
                    /\ UNCHANGED user_audio_data
               ELSE /\ user_audio_data' = SeekAll(user_audio_data)
                    /\ last' = Observe("receive_data", p, "pending")
                    /\ UNCHANGED receive_loop
    /\ UNCHANGED <<recoding, paused, filtered_user, decoder, managers,
                   secret_key, user_audio_timestamp, ssrc_map, in_flight>>

\* one turn of the loop in which recv raises OSError: the handler awaits
\* UserFilter.stop (filter.py:283-285), which waits while the queue holds
\* something and else clears the flags and raises NameError through the
\* handler and out of _receive_packet
ReceiveSocketError ==
    /\ receive_loop = "running"
    /\ recoding
    /\ IF managers[decoder].decode_queue # <<>>
       THEN /\ managers' = ManagerStop(decoder)
            /\ receive_loop' = "stopping"
            /\ last' = Observe("receive_socket_error", 0, "pending")
            /\ UNCHANGED <<recoding, paused>>
       ELSE /\ managers' = ManagerStop(decoder)
            /\ recoding' = FALSE
            /\ paused' = FALSE
            /\ receive_loop' = "idle"
            /\ last' = Observe("receive_socket_error", 0, "NameError")
    /\ UNCHANGED <<filtered_user, decoder, user_audio_data, secret_key,
                   socket, user_audio_timestamp, ssrc_map, in_flight>>

\* the stop that the receive loop awaits wakes from the sleep of
\* DecodeManager.stop (opus.py:613-614)
ReceiveStopWake ==
    /\ EventLoopFree
    /\ receive_loop = "stopping"
    /\ IF managers[decoder].decode_queue # <<>>
       THEN /\ managers' = ManagerStop(decoder)
            /\ last' = Observe("receive_socket_error", 0, "pending")
            /\ UNCHANGED <<recoding, paused, receive_loop>>
       ELSE /\ managers' = ManagerStop(decoder)
            /\ recoding' = FALSE
            /\ paused' = FALSE
            /\ receive_loop' = "idle"
            /\ last' = Observe("receive_socket_error", 0, "NameError")
    /\ UNCHANGED <<filtered_user, decoder, user_audio_data, secret_key,
                   socket, user_audio_timestamp, ssrc_map, in_flight>>

\* DecodeManager._get_decoder(s) is called on manager m; the caller gets
\* the handle stored for s
get_decoder(m, s) ==
    /\ s \in DOMAIN managers[m].decoders \/ managers[m].made < MaxDecoders
    /\ managers' = [managers EXCEPT ![m] = GetDecoder(@, s)]
    /\ last' = Observe("get_decoder",
                       [manager |-> m, ssrc |-> s,
                        handle |-> GetDecoder(managers[m], s).decoders[s]],
                       "none")
    /\ UNCHANGED <<recoding, paused, filtered_user, decoder, aggregator,
                   secret_key, socket>>

\* a holder of the manager appends a frame to its decode_queue, the list
\* DecodeManager.start pops from
Enqueue(m, f) ==
    /\ m \in DOMAIN managers
    /\ Len(managers[m].decode_queue) < MaxQueue
    /\ managers' = [managers EXCEPT ![m].decode_queue = Append(@, f)]
    /\ last' = Observe("enqueue", m, "none")
    /\ UNCHANGED <<recoding, paused, filtered_user, decoder, aggregator,
                   secret_key, socket>>

Next ==
    \/ toggle_pause
    \/ \E u \in Users : add_user(u)
    \/ \E u \in Users : remove_user(u)
    \/ start
    \/ \E m \in DOMAIN managers : WorkerTest(m)
    \/ \E m \in DOMAIN managers : WorkerPop(m)
    \/ \E m \in DOMAIN managers : DecodeManagerStop(m)
    \/ stop
    \/ \E p \in Packets : unpack_audio_packet(p)
    \/ LoadSecretKey
    \/ SocketArrive

Spec == Init /\ [][Next]_vars

\* the event loop keeps running the worker coroutine it has entered
FairSpec == Spec /\ WF_vars(\E m \in DOMAIN managers : WorkerTest(m) \/ WorkerPop(m))

\* the aggregation side alone: frames are handed to receive_decoded_packet
\* while SPEAKING messages (speaking: 1, the microphone) arrive
SyncNext ==
    \/ LoadSecretKey
    \/ \E f \in Frames : receive_decoded_packet(f)
    \/ ReceiveWake
    \/ \E s \in Ssrcs : SPEAKING(s, <<Owner(s)>>, 1)

SyncSpec == Init /\ [][SyncNext]_vars

\* the receiving side: the session, the worker and its queue, to which a
\* holder of the session's manager appends first frames, sound or corrupt,
\* and the receive loop
RecvNext ==
    \/ toggle_pause
    \/ start
    \/ \E m \in DOMAIN managers : WorkerTest(m)
    \/ \E m \in DOMAIN managers : WorkerPop(m)
    \/ \E m \in DOMAIN managers : DecodeManagerStop(m)
    \/ \E f \in Frames \cup CorruptFrames :
          f.timestamp = FrameSamples /\ Enqueue(decoder, f)
    \/ stop
    \/ LoadSecretKey
    \/ SocketArrive
    \/ receive_packet
    \/ ReceiveTurn
    \/ ReceiveSocketError
    \/ ReceiveStopWake

RecvSpec == Init /\ [][RecvNext]_vars

\* the manager of one session and its decoder handles: the worker, its
\* queue, to which first frames are appended, calls of _get_decoder and of
\* DecodeManager.stop
DecoderNext ==
    \/ managers = <<>> /\ start
    \/ \E m \in DOMAIN managers : WorkerTest(m)
    \/ \E m \in DOMAIN managers : WorkerPop(m)
    \/ \E m \in DOMAIN managers : DecodeManagerStop(m)
    \/ \E m \in DOMAIN managers, f \in Frames :
          f.timestamp = FrameSamples /\ Enqueue(m, f)
    \/ \E m \in DOMAIN managers, s \in Ssrcs : get_decoder(m, s)

DecoderSpec == Init /\ [][DecoderNext]_vars

\* the session with the aggregation side: frames are handed to
\* receive_decoded_packet while a session is active, and sessions start and
\* stop
HoldNext ==
    \/ start
    \/ \E m \in DOMAIN managers : WorkerTest(m)
    \/ \E m \in DOMAIN managers : WorkerPop(m)
    \/ \E m \in DOMAIN managers : DecodeManagerStop(m)
    \/ stop
    \/ LoadSecretKey
    \/ \E f \in Frames : recoding /\ receive_decoded_packet(f)
    \/ ReceiveWake
    \/ \E s \in Ssrcs : SPEAKING(s, <<Owner(s)>>, 1)

HoldSpec == Init /\ [][HoldNext]_vars

\* the buffers of one session: the aggregation of first frames and the
\* receive loop, which rewinds the buffers
BufferNext ==
    \/ managers = <<>> /\ start
    \/ \E m \in DOMAIN managers : WorkerTest(m)
    \/ \E m \in DOMAIN managers : WorkerPop(m)
    \/ \E m \in DOMAIN managers : DecodeManagerStop(m)
    \/ LoadSecretKey
    \/ SocketArrive
    \/ receive_packet
    \/ ReceiveTurn
    \/ ReceiveSocketError
    \/ \E f \in Frames :
          f.timestamp = FrameSamples /\ receive_decoded_packet(f)
    \/ ReceiveWake
    \/ \E s \in Ssrcs : SPEAKING(s, <<Owner(s)>>, 1)

BufferSpec == Init /\ [][BufferNext]_vars

\* the packet decryptor alone: packets of every payload length up to
\* MaxPayload under each of the three modes
NonceNext ==
    \/ LoadSecretKey
    \/ \E mode \in Modes, header \in Headers, data \in Payloads,
          plain \in {NotAuthentic, <<7>>} :
          xsalsa20_decrypt(mode, header, data, plain)

NonceSpec == Init /\ [][NonceNext]_vars

\* the plaintext side of the packet decryptor: packets of one length
\* under each mode, decrypting to every plaintext
StripNext ==
    \/ LoadSecretKey
    \/ \E mode \in Modes, plain \in Plaintexts \cup {NotAuthentic} :
          xsalsa20_decrypt(mode, CountingBytes(HeaderSize, 100),
                           CountingBytes(MaxPayload, 0), plain)

StripSpec == Init /\ [][StripNext]_vars

\* the voice gateway next to one recording session: every message, with
\* every user id and speaking value, between the session's operations and
\* the deliveries of first frames of ssrc 1, which read the map
GatewayNext ==
    \/ \E s \in Ssrcs, u \in UserIdStrings, flag \in SpeakingFlags :
          SPEAKING(s, u, flag)
    \/ \E op \in OtherOps : received_message(op)
    \/ managers = <<>> /\ start
    \/ \E m \in DOMAIN managers : WorkerTest(m)
    \/ \E m \in DOMAIN managers : WorkerPop(m)
    \/ \E m \in DOMAIN managers : DecodeManagerStop(m)
    \/ toggle_pause
    \/ stop
    \/ LoadSecretKey
    \/ \E f \in Frames :
          /\ recoding
          /\ f.timestamp = FrameSamples
          /\ f.ssrc = 1
          /\ receive_decoded_packet(f)
    \/ ReceiveWake

GatewaySpec == Init /\ [][GatewayNext]_vars

\* ---------------------------------------------------------------- claims
\* SessionState of the spec (section 4.6), read off the two flags
SessionOf(r, p) == IF ~r THEN "Stopped" ELSE IF p THEN "Paused" ELSE "Recording"

\* UserFilter.status evaluated on the flags before the last step
PreStatus ==
    IF last.pre.recoding THEN "recording"
    ELSE IF last.pre.paused THEN "paused"
    ELSE "stopped"

StartPending(m) == m \in DOMAIN managers /\ managers[m].loop \in {"test", "pop"}

StartReturned(m) ==
    /\ last.op = "start_return"
    /\ last.arg = m
    /\ last.exc = "none"
    /\ SessionOf(recoding, paused) \in {"Recording", "Paused"}
    /\ managers[m].decode_queue = <<>>
    /\ manager_decoders(managers[m]) = {}

\* C1: a start call made while Stopped eventually returns to its caller,
\* with a session active and the DecodeManager that the call created still
\* fresh (empty queue, no decoder handles).
C1_StartEventuallyReturns ==
    \A m \in 1..MaxManagers : StartPending(m) ~> StartReturned(m)

\* C2: a stop call made while Recording or Paused, once it has run to its
\* end, leaves the session Stopped with the pause flag cleared.
C2_StopLeavesStopped ==
    (last.op = "stop" /\ last.pre.recoding /\ last.exc # "pending")
        => (~recoding /\ ~paused)

C2_Witness == last.op = "stop" /\ last.pre.recoding /\ last.pre.paused /\ ~recoding

\* C3: a stop call made while Recording returns to its caller the mapping
\* of the users that have audio in _user_audio_data to that audio; to
\* return it, the call must raise nothing.
C3_StopReturnsMapping ==
    (last.op = "stop" /\ SessionOf(last.pre.recoding, last.pre.paused) = "Recording")
        => last.exc = "none"

\* C4: stop and toggle_pause called while Stopped fail with NotRecording and
\* change neither the session state, the pause flag, the filter membership
\* nor the user buffers.
C4_NotRecordingWhileStopped ==
    [][(~recoding /\ last'.op \in {"stop", "toggle_pause"})
          => /\ last'.exc = "NotRecording"
             /\ UNCHANGED <<recoding, paused, filtered_user, user_audio_data>>]_vars

C4_Witness ==
    /\ last.op \in {"stop", "toggle_pause"}
    /\ last.exc = "NotRecording"
    /\ filtered_user # <<>>

\* C5: start, add_user and remove_user called while Recording or Paused fail
\* with AlreadyRecording and change neither the session state, the worker nor
\* the filter membership.
C5_AlreadyRecordingWhileActive ==
    [][(recoding /\ last'.op \in {"start", "add_user", "remove_user"})
          => /\ last'.exc = "AlreadyRecording"
             /\ UNCHANGED <<recoding, paused, decoder, managers, filtered_user>>]_vars

C5_Witness ==
    /\ last.op \in {"start", "add_user", "remove_user"}
    /\ last.exc = "AlreadyRecording"
    /\ last.pre.paused

\* C6: toggle_pause flips the status the filter reports: recording becomes
\* paused, paused becomes recording, and stopped is reported only while no
\* session is active.
C6_StatusFlips ==
    (last.op = "toggle_pause" /\ last.exc = "none")
        => /\ PreStatus = "recording" => status = "paused"
           /\ PreStatus = "paused" => status = "recording"
           /\ status = "stopped" => ~recoding

\* C7: two toggle_pause calls in succession, nothing in between, return the
\* session state and the pause flag to what they were before the first.
C7_ToggleTwiceRestores ==
    [][(last.op = "toggle_pause" /\ last.exc = "none" /\ last'.op = "toggle_pause")
          => /\ last'.exc = "none"
             /\ recoding' = last.pre.recoding
             /\ paused' = last.pre.paused]_vars

C7_Witness ==
    /\ last.op = "toggle_pause"
    /\ last.exc = "none"
    /\ last.prev = <<"toggle_pause", 0>>
    /\ paused

\* C8: while Stopped, add_user(u) followed at once by remove_user(u) leaves
\* the filter membership (every id with its number of entries) as it was
\* before the add, also when it already held u.
C8_AddThenRemove ==
    [][(/\ last.op = "add_user"
        /\ last.exc = "none"
        /\ last'.op = "remove_user"
        /\ last'.arg = last.arg)
          => /\ last'.exc = "none"
             /\ AsBag(filtered_user') = AsBag(last.pre.filtered_user)]_vars

C8_Witness ==
    /\ last.op = "remove_user"
    /\ last.exc = "none"
    /\ last.prev = <<"add_user", last.arg>>
    /\ last.arg \in Elems(filtered_user)
    /\ Cardinality(Elems(filtered_user)) = 2

\* C9: start, stop, toggle_pause, add_user and remove_user surface no failure
\* to their caller other than AlreadyRecording and NotRecording.
C9_OnlyMisuseSurfaces ==
    last.op \in {"start", "start_return", "stop", "toggle_pause", "add_user",
                 "remove_user"}
        => last.exc \in {"none", "pending", "AlreadyRecording", "NotRecording"}

\* C10: while Recording and not paused, unpack_audio_packet of an audio
\* packet that authenticates adds one frame to the decode queue unless the
\* plaintext is the silence marker, which adds none; neither raises.
C10_AudioPacketQueued ==
    [][(/\ recoding
        /\ ~paused
        /\ secret_key = "set"
        /\ last'.op = "unpack_audio_packet"
        /\ last'.arg.kind = "audio"
        /\ last'.arg.auth)
          => /\ last'.exc = "none"
             /\ Len(managers'[decoder].decode_queue) =
                  Len(managers[decoder].decode_queue)
                    + (IF last'.arg.plain = "opus" THEN 1 ELSE 0)]_vars

\* the content of user u's buffer in the mapping d, empty when u has none
ContentOf(d, u) == IF u \in DOMAIN d THEN d[u].content ELSE <<>>

\* the chunks of a buffer content that came from ssrc s
FromSsrc(content, s) == SelectSeq(content, LAMBDA c : c.payload[1] = s)

Max0(n) == IF n > 0 THEN n ELSE 0

\* C11: every frame that receive_decoded_packet takes for a resolved ssrc is
\* appended exactly once to the buffer of the ssrc's user: the buffer after
\* the call is the buffer before it (empty if the user had none) followed by
\* the frame's data.
C11_FrameAppendedOnce ==
    [][(last'.op = "receive_decoded_packet" /\ last'.exc = "none")
          => LET u == ssrc_map[last'.arg.frame.ssrc].user_id
             IN ContentOf(user_audio_data', u) =
                   Append(ContentOf(user_audio_data, u), last'.arg.decoded)]_vars

C13_PausedPacketIgnored ==
    [][(recoding /\ paused /\ last'.op = "unpack_audio_packet")
          => /\ last'.exc = "none"
             /\ UNCHANGED <<managers, user_audio_timestamp, user_audio_data,
                            in_flight>>]_vars

C13_Witness ==
    /\ last.op = "unpack_audio_packet"
    /\ last.pre.recoding
    /\ last.pre.paused
    /\ last.arg.kind = "audio"
    /\ ~last.arg.auth
    /\ last.exc = "none"

\* C14: in every session state, unpack_audio_packet of an RTCP packet
\* (second byte in 200..204) raises nothing and changes neither a decode
\* queue, a decoder handle, a timestamp nor a user buffer.
C14_RtcpIgnored ==
    [][(last'.op = "unpack_audio_packet" /\ last'.arg.kind = "rtcp")
          => /\ last'.exc = "none"
             /\ UNCHANGED <<managers, user_audio_timestamp, user_audio_data,
                            in_flight>>]_vars

C14_Witness ==
    /\ last.op = "unpack_audio_packet"
    /\ last.arg.kind = "rtcp"
    /\ last.pre.recoding
    /\ ~last.pre.paused
    /\ secret_key = "unset"
    /\ last.exc = "none"

\* C15: when the receive loop reads an audio packet whose payload does not
\* authenticate (the key being loaded), the packet is dropped: no error
\* leaves unpack_audio_packet and the loop keeps running.
C15_BadPacketDropped ==
    (/\ last.op = "receive_data"
     /\ last.arg.kind = "audio"
     /\ ~last.arg.auth
     /\ secret_key = "set")
        => (last.exc = "pending" /\ receive_loop = "running")

\* C16: the worker loop of a manager ends only after DecodeManager.stop has
\* seen the queue drained and set the stop event, and it ends by leaving the
\* loop, every frame it popped having been dispatched.
C16_ExitOnlyAfterDrain ==
    [][\A m \in DOMAIN managers :
          (managers[m].loop \in {"test", "pop"}
             /\ managers'[m].loop \notin {"test", "pop"})
          => (managers[m].end_thread /\ managers'[m].loop = "exited")]_vars

\* the session was ended by a stop call
SessionEnded ==
    /\ ~recoding
    /\ decoder # 0
    /\ managers[decoder].end_thread
    /\ managers[decoder].loop = "exited"

\* C18: the wait for the resolution of an ssrc ends when the session ends:
\* once a stop call has ended the session, a wake-up of a suspended
\* receive_decoded_packet call ends the call, also when its ssrc is still
\* unknown.
C18_WaitEndsWithSession ==
    [][(SessionEnded /\ in_flight # NoCall /\ last'.op = "receive_wake")
          => in_flight' = NoCall]_vars

\* C19: a socket read error in the receive loop stops the session: once the
\* stop it triggers is through, the session is Stopped, the loop has ended
\* and nothing was raised to the caller of the loop.
C19_SocketErrorStops ==
    (last.op = "receive_socket_error" /\ last.exc # "pending")
        => (last.exc = "none" /\ ~recoding /\ receive_loop = "idle")

\* C17: a frame whose ssrc is not in ssrc_map is held: each wake-up of its
\* call before the SPEAKING message leaves the call suspended and the
\* buffers alone and raises nothing; the wake-up after it appends the frame's
\* data to the buffer of the user the ssrc resolved to.
C17_HeldUntilResolved ==
    [][(in_flight # NoCall /\ last'.op = "receive_wake")
          => IF in_flight.ssrc \notin DOMAIN ssrc_map
             THEN /\ last'.exc = "pending"
                  /\ UNCHANGED <<in_flight, user_audio_data>>
             ELSE LET u == ssrc_map[in_flight.ssrc].user_id
                  IN /\ last'.exc = "none"
                     /\ in_flight' = NoCall
                     /\ ContentOf(user_audio_data', u) =
                           Append(ContentOf(user_audio_data, u),
                                  in_flight.decoded)]_vars

\* C20: the frames of one ssrc reach the user's buffer in the order in which
\* they were received: when receive_decoded_packet finishes a frame, the
\* chunks of that ssrc in the buffer are those that were there, in their
\* order, followed by the frame.
C20_ReceiptOrder ==
    [][(/\ last'.op \in {"receive_decoded_packet", "receive_wake"}
        /\ last'.exc = "none")
          => LET s == last'.arg.frame.ssrc
                 u == ssrc_map[s].user_id
             IN FromSsrc(ContentOf(user_audio_data', u), s) =
                   Append(FromSsrc(ContentOf(user_audio_data, u), s),
                          last'.arg.decoded)]_vars

\* C21: when a start call has returned, no ssrc has a recorded timestamp:
\* the timestamps of an earlier session are gone, so the first frame of
\* every ssrc in the new session gets no silence.
C21_TimestampsResetAtStart ==
    [][(last'.op = "start_return" /\ last'.exc = "none")
          => user_audio_timestamp' = <<>>]_vars

\* C22: when a start call has returned, the new session has no user buffer:
\* what an earlier session recorded is not in _user_audio_data any more.
C22_BuffersResetAtStart ==
    [][(last'.op = "start_return" /\ last'.exc = "none")
          => DOMAIN user_audio_data' = {}]_vars

\* the worker loop of manager m runs and finds nothing to pop
WorkerIdle(m) ==
    /\ managers[m].loop \in {"test", "pop"}
    /\ managers[m].decode_queue = <<>>

\* C23: while the worker loop is idle on an empty queue it has yielded the
\* event loop: a stop request, a turn of the receive loop's caller and a
\* SPEAKING message can be taken.
C23_IdleWorkerYields ==
    (\E m \in DOMAIN managers : WorkerIdle(m))
        => /\ ENABLED stop
           /\ ENABLED receive_packet
           /\ ENABLED (\E s \in Ssrcs : SPEAKING(s, <<Owner(s)>>, 1))

\* C24: a decoder handle of a manager is released only when the manager's
\* queue has drained: no step removes a handle while the queue holds a frame.
C24_CleanupAfterDrain ==
    [][\A m \in DOMAIN managers :
          (manager_decoders(managers[m]) \ manager_decoders(managers'[m]) # {})
          => managers[m].decode_queue = <<>>]_vars

\* C25: once DecodeManager.stop has run to its end (the stop event is set),
\* the manager holds no decoder handle.
C25_AllReleasedAtStop ==
    [][\A m \in DOMAIN managers :
          (~managers[m].end_thread /\ managers'[m].end_thread)
          => manager_decoders(managers'[m]) = {}]_vars

\* the handles a decoder map holds
Handles(d) == {d[x] : x \in DOMAIN d}

\* C26: a manager holds at most one decoder handle per ssrc, and handles of
\* different ssrcs are different objects; a new manager holds none, and a
\* handle for an ssrc appears only in a _get_decoder call for that ssrc (the
\* worker's, for the frame it popped, or a direct one); a _get_decoder call
\* for an ssrc that has a handle returns that handle and changes nothing.
C26_OneHandlePerSource ==
    [][/\ \A m \in DOMAIN managers' \ DOMAIN managers :
             managers'[m].decoders = <<>>
       /\ \A m \in DOMAIN managers :
             LET old == managers[m].decoders
                 new == managers'[m].decoders
                 called == IF last'.op = "get_decoder" /\ last'.arg.manager = m
                           THEN {last'.arg.ssrc}
                           ELSE IF last'.op = "start_return" /\ last'.arg = m
                                   /\ last'.exc = "TypeError"
                           THEN {Head(managers[m].decode_queue).ssrc}
                           ELSE {}
             IN /\ (DOMAIN new \ DOMAIN old) \subseteq called
                /\ \A x, y \in DOMAIN new : x # y => new[x] # new[y]
                /\ \A s \in called :
                      /\ s \in DOMAIN new
                      /\ s \in DOMAIN old => new = old
                      /\ s \notin DOMAIN old =>
                            /\ new[s] \notin Handles(old)
                            /\ \A x \in DOMAIN old : new[x] = old[x]
                      /\ last'.op = "get_decoder" => last'.arg.handle = new[s]]_vars

\* a second _get_decoder call for an ssrc, after a handle for another ssrc
\* was made, returns the first handle
C26_Witness ==
    /\ last.op = "get_decoder"
    /\ last.arg.handle < managers[last.arg.manager].made
    /\ Cardinality(DOMAIN managers[last.arg.manager].decoders) = 2

\* C27: when the worker pops a frame whose payload the codec rejects, only
\* that frame is lost: the worker goes on to its next turn, every decoder
\* handle that existed is kept as it was, and no user buffer changes.
C27_DecodeFailureDropsFrame ==
    [][\A m \in DOMAIN managers :
          (/\ managers[m].loop = "pop"
           /\ managers'[m].loop # "pop"
           /\ managers[m].decode_queue # <<>>
           /\ Head(managers[m].decode_queue).plain = "corrupt")
          => /\ managers'[m].loop = "test"
             /\ managers'[m].decode_queue = Tail(managers[m].decode_queue)
             /\ \A x \in DOMAIN managers[m].decoders :
                   /\ x \in DOMAIN managers'[m].decoders
                   /\ managers'[m].decoders[x] = managers[m].decoders[x]
             /\ UNCHANGED user_audio_data]_vars

\* s is a prefix of t
IsPrefix(s, t) == Len(s) <= Len(t) /\ SubSeq(t, 1, Len(s)) = s

\* C28: a user's buffer, once it exists, is never removed or replaced and
\* only grows at its end: in every step each user that has a buffer keeps
\* one whose content starts with the content it had, whether the step is a
\* delivery of a frame or a turn of the receive loop.
C28_BuffersAppendOnly ==
    [][\A u \in DOMAIN user_audio_data :
          /\ u \in DOMAIN user_audio_data'
          /\ IsPrefix(user_audio_data[u].content,
                      user_audio_data'[u].content)]_vars

\* a frame is delivered for a user whose buffer the receive loop has rewound
\* (a buffer made by this delivery would stand at position 1)
C28_Witness ==
    /\ last.op \in {"receive_decoded_packet", "receive_wake"}
    /\ last.exc = "none"
    /\ last.arg.frame.ssrc \in DOMAIN ssrc_map
    /\ LET u == ssrc_map[last.arg.frame.ssrc].user_id
       IN /\ u \in DOMAIN user_audio_data
          /\ user_audio_data[u].pos = 0
          /\ user_audio_data[u].content # <<>>
          /\ last.arg.decoded # Head(user_audio_data[u].content)

\* the step is a turn of the worker of manager m that pops a frame
WorkerStep(m) == managers[m].loop = "pop" /\ managers'[m].loop # "pop"

ZeroAfter(s, k) == \A i \in (k + 1)..Len(s) : s[i] = 0

\* C30: what a decrypt method hands to the AEAD primitive, for every header
\* of 12 bytes and every payload.  Mode xsalsa20_poly1305: a nonce of 24
\* bytes, the header followed by zeros, and the whole payload as ciphertext.
\* Mode suffix: the payload is the ciphertext followed by the nonce, which
\* is 24 bytes.  Mode lite: the payload is the ciphertext followed by 4
\* bytes, and the nonce is 24 bytes, those 4 followed by zeros.
C30_NonceDerivation ==
    (last.op = "decrypt" /\ last.arg.handed)
    => LET a == last.arg
       IN /\ Len(a.nonce) = NonceSize
          /\ a.mode = "xsalsa20_poly1305"
             => /\ SubSeq(a.nonce, 1, HeaderSize) = a.header
                /\ ZeroAfter(a.nonce, HeaderSize)
                /\ a.ciphertext = a.data
          /\ a.mode = "xsalsa20_poly1305_suffix"
             => a.data = a.ciphertext \o a.nonce
          /\ a.mode = "xsalsa20_poly1305_lite"
             => /\ a.data = a.ciphertext \o SubSeq(a.nonce, 1, LiteSize)
                /\ ZeroAfter(a.nonce, LiteSize)

\* C31: a decrypted payload that starts with the marker 0xBE 0xDE comes out
\* of strip_header_ext without its first 4 + 4 * L bytes, L being the
\* big-endian number in its bytes 2..3 (counted from 0); a payload that
\* does not start with the marker comes out unchanged.  Nothing is asked of
\* a payload that ends between the marker and the end of the length.
C31_ExtensionStripped ==
    (last.op = "decrypt" /\ last.arg.plain # NotAuthentic)
    => LET d == last.arg.plain
           marked == Len(d) >= 2 /\ SubSeq(d, 1, 2) = ExtensionMarker
       IN /\ (marked /\ Len(d) >= 4)
             => /\ last.exc = "none"
                /\ last.arg.result =
                      SubSeq(d, 4 + 4 * (d[3] * 256 + d[4]) + 1, Len(d))
          /\ ~marked
             => /\ last.exc = "none"
                /\ last.arg.result = d

\* C32: in every reachable state the pause flag is set only while the
\* recording flag is set; a stopped session is never paused.
C32_PausedOnlyWhileRecording == paused => recoding

\* a second session is paused: the first one was stopped and the filter
\* started again before the flag was set
C32_Witness == paused /\ recoding /\ decoder > 1 /\ last.op # "toggle_pause"

\* C33: the ssrc map only grows and never re-binds: in every step each
\* entry stays, with its user id; a SPEAKING message for an unknown ssrc
\* adds the entry of the message's user id and speaking value and nothing
\* else, a SPEAKING message for a known ssrc changes that entry's speaking
\* value and nothing else, and no other message or operation changes the
\* map.
C33_SsrcMapMonotone ==
    [][/\ \A s \in DOMAIN ssrc_map :
             /\ s \in DOMAIN ssrc_map'
             /\ ssrc_map'[s].user_id = ssrc_map[s].user_id
       /\ IF last'.op = "SPEAKING"
          THEN LET e == last'.arg
               IN IF e.ssrc \in DOMAIN ssrc_map
                  THEN ssrc_map' = [ssrc_map EXCEPT ![e.ssrc].speaking = e.speaking]
                  ELSE /\ DOMAIN ssrc_map' = DOMAIN ssrc_map \cup {e.ssrc}
                       /\ ssrc_map'[e.ssrc] =
                             [user_id |-> ParseInt(e.user_id),
                              speaking |-> e.speaking]
                       /\ \A s \in DOMAIN ssrc_map : ssrc_map'[s] = ssrc_map[s]
          ELSE UNCHANGED ssrc_map]_vars

\* during a session a SPEAKING message names a known ssrc with another
\* user's id and another speaking value: the value is taken, the user kept
C33_Witness ==
    /\ recoding
    /\ last.op = "SPEAKING"
    /\ last.arg.ssrc \in DOMAIN ssrc_map
    /\ ssrc_map[last.arg.ssrc].user_id # ParseInt(last.arg.user_id)
    /\ ssrc_map[last.arg.ssrc].speaking = 0
    /\ DOMAIN user_audio_data # {}
====
